---- MODULE Spec2Model ----
(***************************************************************************)
(* The software audio mixer of sound.go (type soundSystem): the registry   *)
(* of playing sounds, the queue of consecutive sounds, the handle counter  *)
(* and the per-tick update() that advances, mixes, writes and reclaims.    *)
(*                                                                         *)
(* Positions and speeds are float64 in the source.  They are modelled in   *)
(* fixed point: an integer p stands for the value p / Den.  Every value    *)
(* the model produces is a small dyadic rational, for which float64        *)
(* arithmetic is exact.                                                    *)
(***************************************************************************)
EXTENDS Integers, Sequences, FiniteSets, TLC

VARIABLES
    playingSounds,  \* soundSystem.playingSounds: sequence of soundState
    queue,          \* soundSystem.queue: sequence of <<atEndOf, handle>>
    nextHandle,     \* soundSystem.nextHandle
    lastWritePos,   \* soundSystem.lastWritePos (byte offset)
    loadedSounds,   \* soundSystem.loadedSounds: the paths that are cached
    locked,         \* update() returned without calling Unlock on a region it locked
    ret,            \* what the last call returned: [op, handle, err]
    maxReturned,    \* largest handle returned with a nil error so far
    tick            \* what update() did, when the last call was update()

mixer == <<playingSounds, queue, nextHandle, lastWritePos>>
vars == <<playingSounds, queue, nextHandle, lastWritePos, loadedSounds,
          locked, ret, maxReturned, tick>>

----------------------------------------------------------------------------
(* Bounds of the model *)

\* fixed-point denominator: p stands for p / Den
Den == 4
\* handles 1..MaxHandle are issued; creation stops when they are used up
MaxHandle == 2
\* the ring buffer holds BufFrames sample-frames (88200 in the program)
BufFrames == 3
\* frames rendered per update (4096 in the program)
WindowFrames == 2
\* positions below -PosFloor samples, or above PosCeil samples in the clip of
\* 3 samples and as far behind the end of a longer clip, are not explored
PosFloor == 2
PosCeil == 3
\* handles issued in the specification of the chains of consecutive sounds
ChainHandles == 4
\* handles issued in the specification of the device
DeviceHandles == 2
\* handles issued in the specification of the speeds
SpeedHandles == 1
\* handles issued in the specification of the calls
CallHandles == 3
\* handles issued in the specification of the progress
LiveHandles == 2
\* the samples of the long clip
ScenarioFrames == 100

----------------------------------------------------------------------------
(* Constants of the program *)

invalidSoundHandle == 0
\* bytes per sample-frame: 2 channels of int16
FrameBytes == 4
soundWriteAheadSamples == WindowFrames
soundWriteAheadSize == FrameBytes * soundWriteAheadSamples
mixBufferSize == FrameBytes * BufFrames

\* the asset files: one that loads, one that ReadFile does not find
GoodPaths == {"a.raw"}
Paths == GoodPaths \cup {"missing.raw"}
\* len(raw) / 4 of each asset
SampleCount(path) ==
    IF path = "a.raw" THEN 3
    ELSE IF path = "long.raw" THEN ScenarioFrames
    ELSE 0

\* speeds a caller passes to setSpeed: -1 and 2
Speeds == {-Den, 2 * Den}
\* and, where one sound is looked at closely: -1, 0, 1/Den, 1 and 2
FineSpeeds == {-Den, 0, 1, Den, 2 * Den}
\* frames the hardware advances between two device calls of one update()
Drift == {0, 1}
\* the write cursor leads the play cursor by no more than the part of the
\* ring buffer that the window leaves free
HwLead == mixBufferSize - soundWriteAheadSize

NoSample == 0 - 1
\* tick.cursor: the write cursor read; tick.played: playedSamples; tick.mix:
\* per mixed handle, the source index added to each slot of the window
\* (NoSample: nothing added); tick.written: the region WriteRaw wrote the
\* window to; tick.hwAtLock, tick.hwAtWrite: the hardware's write cursor
\* when Lock and when WriteRaw ran; tick.reclaimed: the handles removed as over;
\* tick.last: tick.mix of the last update() that returned nil, for as long as
\* only update() is called
NoTick == [cursor |-> NoSample, played |-> NoSample, mix |-> <<>>,
           written |-> <<>>, hwAtLock |-> NoSample, hwAtWrite |-> NoSample,
           reclaimed |-> {}, last |-> <<>>]
PANIC == "panic"

----------------------------------------------------------------------------
(* soundState and the pure helpers *)

\* a sound that starts at the zero value of speed
soundStateStill(handle, path, looping, queued) ==
    [handle |-> handle, path |-> path, pos |-> 0, lastSpeed |-> 0,
     speed |-> 0, looping |-> looping, queued |-> queued]

\* a sound that starts as if it had been playing at its speed
soundStateRunning(handle, path, looping, queued) ==
    [handle |-> handle, path |-> path, pos |-> 0, lastSpeed |-> Den,
     speed |-> Den, looping |-> looping, queued |-> queued]

soundState(handle, path, looping, queued) ==
    [handle |-> handle, path |-> path, pos |-> 0, lastSpeed |-> 0,
     speed |-> Den, looping |-> looping, queued |-> queued]

\* an end that is only reached behind the last sample
isOverPastEnd(s) == ~s.looping /\ s.pos > (SampleCount(s.path) - 1) * Den

isOver(s) == ~s.looping /\ s.pos >= (SampleCount(s.path) - 1) * Den

RECURSIVE wrapUp(_, _)
wrapUp(pos, n) == IF pos < 0 THEN wrapUp(pos + n, n) ELSE pos

RECURSIVE wrapDown(_, _)
wrapDown(pos, n) == IF pos > n THEN wrapDown(pos - n, n) ELSE pos

wrapSoundPos(pos, sampleCount) ==
    LET n == (sampleCount - 1) * Den
    IN  wrapDown(wrapUp(pos, n), n)

\* a rounding that takes every tie upwards
roundHalfUp(x) == (2 * x + Den) \div (2 * Den)

\* int(x) truncates toward zero
round(x) ==
    IF x < 0 THEN -((Den - 2 * x) \div (2 * Den))
    ELSE (2 * x + Den) \div (2 * Den)

\* a distance that forgets that the ring buffer wraps
writeSampleDistNoWrap(a, b) ==
    IF (b - a) % FrameBytes # 0 THEN [panic |-> TRUE, samples |-> NoSample]
    ELSE [panic |-> FALSE, samples |-> (b - a) \div FrameBytes]

\* panic: the panic of line 319, which returns nothing
writeSampleDist(a, b) ==
    LET d == IF b - a < 0 THEN mixBufferSize - a + b ELSE b - a
    IN  IF d % FrameBytes # 0 THEN [panic |-> TRUE, samples |-> NoSample]
        ELSE [panic |-> FALSE, samples |-> d \div FrameBytes]

\* the index of the first sound with the handle, 0 for nil
soundFromHandle(sounds, handle) ==
    LET I == {i \in 1..Len(sounds) : sounds[i].handle = handle}
    IN  IF I = {} THEN 0 ELSE CHOOSE i \in I : \A k \in I : i <= k

Handles(sounds) == {sounds[i].handle : i \in 1..Len(sounds)}

\* a removal that forgets the sounds behind the one removed
RemoveFrom(seq, i) == SubSeq(seq, 1, i - 1)

RemoveAt(seq, i) == SubSeq(seq, 1, i - 1) \o SubSeq(seq, i + 1, Len(seq))

----------------------------------------------------------------------------
Init ==
    /\ playingSounds = <<>>
    /\ queue = <<>>
    /\ nextHandle = 1
    /\ lastWritePos = 0
    /\ loadedSounds = {}
    /\ locked = FALSE
    /\ ret = [op |-> "init", handle |-> 0, err |-> "nil"]
    /\ maxReturned = 0
    /\ tick = NoTick

Running == ret.err # PANIC

----------------------------------------------------------------------------
(* The calls that create sounds *)

\* what comes behind the last dot of the path
Suffix(path) ==
    IF path \in {"a.raw", "long.raw", "mono.raw", "missing.raw"} THEN "raw"
    ELSE IF path \in {"b.ogg", "slow.ogg", "mono.ogg", "bad.ogg"} THEN "ogg"
    ELSE IF path \in {"c.mp3", "slow.mp3", "mono.mp3", "bad.mp3"} THEN "mp3"
    ELSE "wav"

\* the files that assetFiles.ReadFile finds
AssetFiles == {"a.raw", "long.raw", "mono.raw", "b.ogg", "slow.ogg", "mono.ogg", "bad.ogg",
               "c.mp3", "slow.mp3", "mono.mp3", "bad.mp3", "d.wav"}
\* the files that the decoder of their kind reads without an error
Decodes(path) == path \notin {"bad.ogg", "bad.mp3"}
\* the audio that is in the file
FileRate(path) ==
    IF path \in {"slow.ogg", "slow.mp3", "mono.raw"} THEN 22050 ELSE 44100
FileChannels(path) ==
    IF path \in {"mono.ogg", "mono.mp3", "mono.raw"} THEN 1 ELSE 2

\* a load that caches the file as soon as it is read
loadRawSamplesCacheFirst(path) ==
    IF path \in loadedSounds
    THEN [err |-> "nil", cache |-> loadedSounds, data |-> path]
    ELSE IF path \notin AssetFiles
    THEN [err |-> "load", cache |-> loadedSounds, data |-> ""]
    ELSE IF Suffix(path) \in {"ogg", "mp3"} /\ FileRate(path) # 44100
    THEN [err |-> "format", cache |-> loadedSounds \cup {path}, data |-> ""]
    ELSE [err |-> "nil", cache |-> loadedSounds \cup {path}, data |-> path]

\* lines 373-425; data: the file whose samples are returned
loadRawSamples(path) ==
    LET failed(err) == [err |-> err, cache |-> loadedSounds, data |-> ""]
        cached == [err |-> "nil", cache |-> loadedSounds \cup {path},
                   data |-> path]
    IN  IF path \in loadedSounds
        THEN [err |-> "nil", cache |-> loadedSounds, data |-> path]
        ELSE IF path \notin AssetFiles THEN failed("load")
        ELSE IF Suffix(path) = "raw" THEN cached
        ELSE IF Suffix(path) = "ogg"
        THEN IF ~Decodes(path) THEN failed("decode")
             ELSE IF FileRate(path) # 44100 THEN failed("format")
             ELSE IF FileChannels(path) # 2 THEN failed("format")
             ELSE cached
        ELSE IF Suffix(path) = "mp3"
        THEN IF ~Decodes(path) THEN failed("decode")
             ELSE IF FileRate(path) # 44100 THEN failed("format")
             ELSE cached
        ELSE failed("extension")

\* a creation whose queued sounds play once
playQueuedOnce(path, looping, queued) ==
    LET raw == loadRawSamples(path)
    IN  IF raw.err # "nil"
        THEN [handle |-> invalidSoundHandle, err |-> raw.err,
              sounds |-> playingSounds, next |-> nextHandle, cache |-> raw.cache]
        ELSE [handle |-> nextHandle, err |-> "nil",
              sounds |-> Append(playingSounds,
                                soundState(nextHandle, path,
                                           looping /\ ~queued, queued)),
              next |-> nextHandle + 1, cache |-> raw.cache]

playLoopingAndQueued(path, looping, queued) ==
    LET raw == loadRawSamples(path)
    IN  IF raw.err # "nil"
        THEN [handle |-> invalidSoundHandle, err |-> raw.err,
              sounds |-> playingSounds, next |-> nextHandle, cache |-> raw.cache]
        ELSE [handle |-> nextHandle, err |-> "nil",
              sounds |-> Append(playingSounds,
                                soundState(nextHandle, path, looping, queued)),
              next |-> nextHandle + 1, cache |-> raw.cache]

\* what the caller of queueLoopAfter gets back
queueLoopAfterResult(r) ==
    IF r.err # "nil" THEN [handle |-> invalidSoundHandle, err |-> "nil"]
    ELSE [handle |-> r.handle, err |-> "nil"]

Returned(op, handle, err) ==
    /\ ret' = [op |-> op, handle |-> handle, err |-> err]
    /\ maxReturned' = IF err = "nil" /\ handle > maxReturned
                      THEN handle ELSE maxReturned

Create(op, path, looping) ==
    LET r == playLoopingAndQueued(path, looping, FALSE)
    IN  /\ Running
        /\ playingSounds' = r.sounds
        /\ nextHandle' = r.next
        /\ loadedSounds' = r.cache
        /\ Returned(op, r.handle, r.err)
        /\ tick' = NoTick
        /\ UNCHANGED <<queue, lastWritePos, locked>>

play(path) == Create("play", path, FALSE)

loop(path) == Create("loop", path, TRUE)

queueLoopAfter(atEndOf, path) ==
    LET r == playLoopingAndQueued(path, TRUE, TRUE)
        out == queueLoopAfterResult(r)
    IN  /\ Running
        /\ playingSounds' = r.sounds
        /\ nextHandle' = r.next
        /\ loadedSounds' = r.cache
        /\ queue' = IF r.err # "nil" THEN queue
                    ELSE Append(queue, <<atEndOf, r.handle>>)
        /\ Returned("queueLoopAfter", out.handle, out.err)
        /\ tick' = NoTick
        /\ UNCHANGED <<lastWritePos, locked>>

----------------------------------------------------------------------------
(* stop and setSpeed *)

\* a stop that takes the first sound when it does not find the handle
stopFirstIfUnknown(handle) ==
    LET i == soundFromHandle(playingSounds, handle)
    IN  /\ Running
        /\ playingSounds' = IF i # 0 THEN RemoveAt(playingSounds, i)
                            ELSE IF playingSounds = <<>> THEN <<>>
                            ELSE Tail(playingSounds)
        /\ Returned("stop", invalidSoundHandle,
                    IF i = 0 /\ playingSounds = <<>> THEN "unknown" ELSE "nil")
        /\ tick' = NoTick
        /\ UNCHANGED <<queue, nextHandle, lastWritePos, loadedSounds, locked>>

stop(handle) ==
    LET i == soundFromHandle(playingSounds, handle)
    IN  /\ Running
        /\ playingSounds' = IF i = 0 THEN playingSounds
                            ELSE RemoveAt(playingSounds, i)
        /\ Returned("stop", invalidSoundHandle, IF i = 0 THEN "unknown" ELSE "nil")
        /\ tick' = NoTick
        /\ UNCHANGED <<queue, nextHandle, lastWritePos, loadedSounds, locked>>

\* a setSpeed that also changes the speed of the frames already played
setSpeedAtOnce(handle, speed) ==
    LET i == soundFromHandle(playingSounds, handle)
    IN  /\ Running
        /\ playingSounds' = IF i = 0 THEN playingSounds
                            ELSE [playingSounds EXCEPT ![i].speed = speed,
                                                       ![i].lastSpeed = speed]
        /\ Returned("setSpeed", invalidSoundHandle, IF i = 0 THEN "unknown" ELSE "nil")
        /\ tick' = NoTick
        /\ UNCHANGED <<queue, nextHandle, lastWritePos, loadedSounds, locked>>

setSpeed(handle, speed) ==
    LET i == soundFromHandle(playingSounds, handle)
    IN  /\ Running
        /\ playingSounds' = IF i = 0 THEN playingSounds
                            ELSE [playingSounds EXCEPT ![i].speed = speed]
        /\ Returned("setSpeed", invalidSoundHandle, IF i = 0 THEN "unknown" ELSE "nil")
        /\ tick' = NoTick
        /\ UNCHANGED <<queue, nextHandle, lastWritePos, loadedSounds, locked>>

----------------------------------------------------------------------------
(* update *)

Explored(s) ==
    /\ -PosFloor * Den <= s.pos
    /\ s.pos <= (PosCeil + SampleCount(s.path) - SampleCount("a.raw")) * Den

\* a catching up at the speed of now
advanceAtSpeed(s, playedSamples) ==
    LET pos == s.pos + playedSamples * s.speed
    IN  [s EXCEPT !.pos = IF s.looping
                           THEN wrapSoundPos(pos, SampleCount(s.path))
                           ELSE pos]

\* a catching up that takes the speed of now where there is no last speed
advanceFromStart(s, playedSamples) ==
    LET pos == s.pos + playedSamples *
                        (IF s.lastSpeed = 0 THEN s.speed ELSE s.lastSpeed)
    IN  [s EXCEPT !.pos = IF s.looping
                           THEN wrapSoundPos(pos, SampleCount(s.path))
                           ELSE pos]

\* lines 216-219: catch up with what the hardware played, at the last speed
advance(s, playedSamples) ==
    LET pos == s.pos + playedSamples * s.lastSpeed
    IN  [s EXCEPT !.pos = IF s.looping
                           THEN wrapSoundPos(pos, SampleCount(s.path))
                           ELSE pos]

\* lines 222-227: the sample index added to slot i (0-based) of the window
slotIndex(s, i) ==
    LET pos == s.pos + i * s.speed
        wrapped == IF s.looping THEN wrapSoundPos(pos, SampleCount(s.path))
                   ELSE pos
        j == round(wrapped)
    IN  IF 0 <= j /\ j < SampleCount(s.path) THEN j ELSE NoSample

\* a mixer that forgets the check of line 212
advanceAllQueuedToo(sounds, playedSamples) ==
    [i \in 1..Len(sounds) |-> advance(sounds[i], playedSamples)]

\* lines 209-234: queued sounds are skipped, the others advanced
advanceAll(sounds, playedSamples) ==
    [i \in 1..Len(sounds) |->
        IF sounds[i].queued THEN sounds[i]
        ELSE advance(sounds[i], playedSamples)]

\* what each sound that is not queued adds to the window
mixAll(sounds) ==
    [h \in {sounds[i].handle : i \in {k \in 1..Len(sounds) : ~sounds[k].queued}} |->
        [i \in 1..soundWriteAheadSamples |->
            slotIndex(sounds[soundFromHandle(sounds, h)], i - 1)]]

\* a walk that stops at the first sound queued behind h
RECURSIVE fireQueueFirstOnly(_, _, _, _, _)
fireQueueFirstOnly(sounds, q, h, k, queueN) ==
    IF k > Len(q) THEN [sounds |-> sounds, queue |-> q]
    ELSE IF q[k][1] = h
    THEN LET follow == soundFromHandle(sounds, q[k][2])
         IN  [sounds |-> IF follow = 0 THEN sounds
                         ELSE [sounds EXCEPT ![follow].queued = FALSE],
              queue |-> q]
    ELSE fireQueueFirstOnly(sounds, [q EXCEPT ![queueN + 1] = q[k]], h, k + 1,
                            queueN + 1)

\* a walk that takes every pair of the queue for one behind h
RECURSIVE fireQueueAnyLink(_, _, _, _, _)
fireQueueAnyLink(sounds, q, h, k, queueN) ==
    IF k > Len(q) THEN [sounds |-> sounds, queue |-> q]
    ELSE LET follow == soundFromHandle(sounds, q[k][2])
         IN  fireQueueAnyLink(IF follow = 0 THEN sounds
                              ELSE [sounds EXCEPT ![follow].queued = FALSE],
                              q, h, k + 1, queueN)

\* a walk that ends at the first pair behind h whose second sound is gone
RECURSIVE fireQueueUntilGone(_, _, _, _, _)
fireQueueUntilGone(sounds, q, h, k, queueN) ==
    IF k > Len(q) THEN [sounds |-> sounds, queue |-> q]
    ELSE IF q[k][1] = h
    THEN LET follow == soundFromHandle(sounds, q[k][2])
         IN  IF follow = 0 THEN [sounds |-> sounds, queue |-> q]
             ELSE fireQueueUntilGone([sounds EXCEPT ![follow].queued = FALSE],
                                     q, h, k + 1, queueN)
    ELSE fireQueueUntilGone(sounds, [q EXCEPT ![queueN + 1] = q[k]], h, k + 1,
                            queueN + 1)

\* lines 259-269: the sound with handle h is over; k walks the queue
RECURSIVE fireQueue(_, _, _, _, _)
fireQueue(sounds, q, h, k, queueN) ==
    IF k > Len(q) THEN [sounds |-> sounds, queue |-> q]
    ELSE IF q[k][1] = h
    THEN LET follow == soundFromHandle(sounds, q[k][2])
         IN  fireQueue(IF follow = 0 THEN sounds
                       ELSE [sounds EXCEPT ![follow].queued = FALSE],
                       q, h, k + 1, queueN)
    ELSE fireQueue(sounds, [q EXCEPT ![queueN + 1] = q[k]], h, k + 1, queueN + 1)

\* lines 256-275: compact playingSounds in place; n sounds are kept so far
RECURSIVE removeOver(_, _, _, _)
removeOver(sounds, q, i, n) ==
    IF i > Len(sounds) THEN [sounds |-> SubSeq(sounds, 1, n), queue |-> q]
    ELSE IF isOver(sounds[i])
    THEN LET r == fireQueue(sounds, q, sounds[i].handle, 1, 0)
         IN  removeOver(r.sounds, r.queue, i + 1, n)
    ELSE removeOver([sounds EXCEPT ![n + 1] = sounds[i]], q, i + 1, n + 1)

\* a snapshot that skips the queued sounds, as the mixing does
snapshotActiveOnly(sounds) ==
    [i \in 1..Len(sounds) |->
        IF sounds[i].queued THEN sounds[i]
        ELSE [sounds[i] EXCEPT !.lastSpeed = sounds[i].speed]]

\* an update() that never takes over the speeds
snapshotNever(sounds) == sounds

\* lines 277-279
snapshot(sounds) ==
    [i \in 1..Len(sounds) |-> [sounds[i] EXCEPT !.lastSpeed = sounds[i].speed]]

\* a Lock without BLOCK_FROMWRITECURSOR locks at its offset argument, 0
lockRegionAtOffset(hw) == [offset |-> 0, bytes |-> soundWriteAheadSize]

\* line 192: Lock(0, soundWriteAheadSize, BLOCK_FROMWRITECURSOR) locks the
\* region that starts at the hardware's write cursor
lockRegion(hw) == [offset |-> hw, bytes |-> soundWriteAheadSize]

\* a WriteRaw that copies the first frame of the window only
writeRawOneFrame(mem) == [offset |-> mem.offset, bytes |-> FrameBytes]

\* lines 248-249: WriteRaw(0, ..., len(writeAheadBuffer)*4) fills the region
writeRaw(mem) == [offset |-> mem.offset, bytes |-> soundWriteAheadSamples * FrameBytes]

\* fail names the device call that returns an error ("nil": none does); the
\* hardware's write cursor is at byte hw when the region is locked, d1 frames
\* further when GetCurrentPosition reads it and d2 frames further still when
\* WriteRaw copies the window; the cursor read is m bytes off a frame boundary
update(fail, hw, d1, d2, m) ==
    LET hw1 == (hw + FrameBytes * d1) % mixBufferSize
        hw2 == (hw1 + FrameBytes * d2) % mixBufferSize
        mem == lockRegion(hw)
        writePos == (hw1 + m) % mixBufferSize
        dist == writeSampleDist(lastWritePos, writePos)
        playedSamples == dist.samples
        advanced == advanceAll(playingSounds, playedSamples)
        kept == removeOver(advanced, queue, 1, 0)
        done(err) == ret' = [op |-> "update", handle |-> invalidSoundHandle,
                             err |-> err]
    IN  /\ Running
        /\ UNCHANGED <<nextHandle, loadedSounds, maxReturned>>
        /\ IF fail = "lock"
           THEN /\ done("lock")
                /\ tick' = NoTick
                /\ UNCHANGED <<playingSounds, queue, lastWritePos, locked>>
           ELSE IF fail = "cursor"
           THEN /\ done("cursor")
                /\ tick' = NoTick
                /\ locked' = TRUE
                /\ UNCHANGED <<playingSounds, queue, lastWritePos>>
           ELSE IF dist.panic
           THEN /\ done(PANIC)
                /\ tick' = [NoTick EXCEPT !.cursor = writePos]
                /\ locked' = TRUE
                /\ UNCHANGED <<playingSounds, queue, lastWritePos>>
           ELSE /\ \A i \in 1..Len(advanced) : Explored(advanced[i])
                /\ IF fail = "unlock"
                   THEN /\ done("unlock")
                        /\ playingSounds' = advanced
                        /\ tick' = [cursor |-> writePos, played |-> playedSamples,
                                    mix |-> mixAll(advanced),
                                    written |-> writeRaw(mem),
                                    hwAtLock |-> hw, hwAtWrite |-> hw2,
                                    reclaimed |-> {}, last |-> tick.last]
                        /\ UNCHANGED <<queue, lastWritePos, locked>>
                   ELSE /\ done("nil")
                        /\ playingSounds' = snapshot(kept.sounds)
                        /\ queue' = kept.queue
                        /\ lastWritePos' = writePos
                        /\ tick' = [cursor |-> writePos, played |-> playedSamples,
                                    mix |-> mixAll(advanced),
                                    written |-> writeRaw(mem),
                                    hwAtLock |-> hw, hwAtWrite |-> hw2,
                                    reclaimed |-> Handles(advanced) \ Handles(kept.sounds),
                                    last |-> mixAll(advanced)]
                        /\ UNCHANGED locked

----------------------------------------------------------------------------
\* the frame boundaries of the ring buffer
Cursors == {FrameBytes * f : f \in 0..(BufFrames - 1)}

Fails == {"nil", "lock", "cursor", "unlock"}

\* the inputs of update() that differ in what it reads: a call that fails
\* leaves the inputs of the later calls unread
DeviceRun(fail, hw, d1, d2, m) ==
    /\ fail \in {"lock", "cursor"} => hw = 0 /\ d1 = 0 /\ d2 = 0 /\ m = 0
    /\ m # 0 => fail = "nil" /\ d2 = 0

\* update() with the hardware standing still while it runs; a cursor off a
\* frame boundary is one byte behind lastWritePos
updateStill ==
    \E fail \in Fails, hw \in Cursors, m \in {0, FrameBytes - 1} :
        /\ DeviceRun(fail, hw, 0, 0, m)
        /\ m # 0 => hw = lastWritePos
        /\ update(fail, hw, 0, 0, m)

\* The mixer with every call of its API: MaxHandle sounds, any speed.
Next ==
    \/ \E path \in Paths : nextHandle <= MaxHandle /\ play(path)
    \/ \E path \in Paths : nextHandle <= MaxHandle /\ loop(path)
    \/ \E atEndOf \in 0..MaxHandle, path \in Paths :
            nextHandle <= MaxHandle /\ queueLoopAfter(atEndOf, path)
    \/ \E handle \in 0..MaxHandle : stop(handle)
    \/ \E handle \in 0..MaxHandle, speed \in Speeds : setSpeed(handle, speed)
    \/ updateStill

Spec == Init /\ [][Next]_vars

\* The chains of consecutive sounds: ChainHandles sounds at their first speed,
\* on a device that does not fail.
NextChain ==
    \/ \E path \in GoodPaths : nextHandle <= ChainHandles /\ play(path)
    \/ \E atEndOf \in 1..ChainHandles, path \in GoodPaths :
            nextHandle <= ChainHandles /\ queueLoopAfter(atEndOf, path)
    \/ \E handle \in 1..ChainHandles : stop(handle)
    \/ \E hw \in Cursors : update("nil", hw, 0, 0, 0)

SpecChain == Init /\ [][NextChain]_vars

\* The device: DeviceHandles sounds at their first speed, on a sound card that
\* plays on while update() runs and whose calls may fail.
NextDevice ==
    \/ \E path \in GoodPaths : nextHandle <= DeviceHandles /\ play(path)
    \/ \E atEndOf \in 1..DeviceHandles, path \in GoodPaths :
            nextHandle <= DeviceHandles /\ queueLoopAfter(atEndOf, path)
    \/ \E fail \in Fails, hw \in Cursors, d1, d2 \in Drift,
          m \in 0..(FrameBytes - 1) :
            DeviceRun(fail, hw, d1, d2, m) /\ update(fail, hw, d1, d2, m)

SpecDevice == Init /\ [][NextDevice]_vars

\* The speeds: SpeedHandles sounds at any speed, on a device that does not fail.
NextSpeed ==
    \/ \E path \in GoodPaths : nextHandle <= SpeedHandles /\ play(path)
    \/ \E path \in GoodPaths : nextHandle <= SpeedHandles /\ loop(path)
    \/ \E handle \in 1..SpeedHandles, speed \in FineSpeeds : setSpeed(handle, speed)
    \/ \E hw \in Cursors : update("nil", hw, 0, 0, 0)

SpecSpeed == Init /\ [][NextSpeed]_vars

\* The calls: CallHandles sounds, every call of the API with handles that are
\* and are not in the registry, on a device that does not fail and plays one
\* frame from one update() to the next.
NextCalls ==
    \/ \E path \in Paths : nextHandle <= CallHandles /\ play(path)
    \/ \E path \in Paths : nextHandle <= CallHandles /\ loop(path)
    \/ \E atEndOf \in 0..CallHandles, path \in Paths :
            nextHandle <= CallHandles /\ queueLoopAfter(atEndOf, path)
    \/ \E handle \in 0..CallHandles : stop(handle)
    \/ \E handle \in 0..CallHandles : setSpeed(handle, 2 * Den)
    \/ update("nil", (lastWritePos + FrameBytes) % mixBufferSize, 0, 0, 0)

SpecCalls == Init /\ [][NextCalls]_vars

----------------------------------------------------------------------------
(* What the claims speak of *)

\* the sound with handle h
Sound(sounds, h) == sounds[soundFromHandle(sounds, h)]

\* the step is a call of update(); one that got as far as mixing
UpdateStep == ret'.op = "update"
Rendered == tick.played # NoSample
RenderStep == UpdateStep /\ Rendered'

\* the handles that are queued behind another sound
Followers == {queue[k][2] : k \in 1..Len(queue)}

\* the sounds the step reclaimed
Reclaimed == Handles(playingSounds) \ Handles(playingSounds')

LastIndex(s) == (SampleCount(s.path) - 1) * Den

\* pos1 is what pos + playedSamples * lastSpeed is for a looping sound
AdvancedLooping(s, playedSamples, pos1) ==
    /\ 0 <= pos1 /\ pos1 <= LastIndex(s)
    /\ (pos1 - (s.pos + playedSamples * s.lastSpeed)) % LastIndex(s) = 0

----------------------------------------------------------------------------
(* C1 *)

\* a queued sound is left alone by update(): not advanced, not mixed
C1_QueuedIsSilent ==
    \A b \in Handles(playingSounds) :
        (UpdateStep /\ Sound(playingSounds, b).queued) =>
            /\ b \notin DOMAIN tick'.mix
            /\ b \in Handles(playingSounds')
            /\ Sound(playingSounds', b).pos = Sound(playingSounds, b).pos

\* it stays queued until the update() that reclaims the sound it follows,
\* and that update() ends with it no longer queued
C1_ActivatedByReclaim ==
    \A b \in Handles(playingSounds) \cap Handles(playingSounds') :
        /\ (Sound(playingSounds, b).queued /\ ~Sound(playingSounds', b).queued) =>
                /\ UpdateStep
                /\ \E k \in 1..Len(queue) :
                        queue[k][2] = b /\ queue[k][1] \in Reclaimed
        /\ (UpdateStep /\ \E k \in 1..Len(queue) :
                              queue[k][2] = b /\ queue[k][1] \in Reclaimed) =>
                ~Sound(playingSounds', b).queued

\* once it is not queued, the update() named by step advances and mixes it
C1_ThenPlays(step) ==
    \A b \in Handles(playingSounds) \cap Followers :
        (step /\ ~Sound(playingSounds, b).queued) =>
            /\ b \in DOMAIN tick'.mix
            /\ b \in Handles(playingSounds')
            /\ AdvancedLooping(Sound(playingSounds, b), tick'.played,
                               Sound(playingSounds', b).pos)

----------------------------------------------------------------------------
(* C2 *)

\* the sounds C2 speaks of: not looping, not queued, at one speed > 0
C2_Steady(s) ==
    ~s.looping /\ ~s.queued /\ s.speed > 0 /\ s.lastSpeed \in {0, s.speed}

\* C2 as stated: such a sound never moves backwards from one update() to the
\* next, and update() removes it in exactly the first update() whose advanced
\* pos is >= len(clip) - 1, not earlier and not later.
C2_Original ==
    [][\A h \in Handles(playingSounds) :
        LET s == Sound(playingSounds, h)
        IN  (UpdateStep /\ C2_Steady(s)) =>
              /\ h \in Handles(playingSounds') =>
                    Sound(playingSounds', h).pos >= s.pos
              /\ ~Rendered' => h \in Handles(playingSounds')
              /\ Rendered' =>
                    (h \notin Handles(playingSounds') <=>
                        s.pos + tick'.played * s.lastSpeed >= LastIndex(s))]_vars

----------------------------------------------------------------------------
(* C3 *)

Creators == {"play", "loop", "queueLoopAfter"}

HandlesDistinct ==
    \A i, j \in 1..Len(playingSounds) :
        playingSounds[i].handle = playingSounds[j].handle => i = j

\* C3 as stated: every handle that play, loop or queueLoopAfter returns is
\* greater than every handle returned before and is not the invalid handle 0;
\* the handles in the registry are pairwise distinct.
C3_Original ==
    [][/\ (ret'.op \in Creators /\ ret'.err = "nil") =>
            (ret'.handle # invalidSoundHandle /\ ret'.handle > maxReturned)
       /\ HandlesDistinct']_vars

----------------------------------------------------------------------------
(* C4 *)

C4_PosInRange ==
    \A i \in 1..Len(playingSounds) :
        ~playingSounds[i].queued =>
            (0 <= playingSounds[i].pos
                /\ playingSounds[i].pos <= LastIndex(playingSounds[i]))

\* C4 as stated: whatever the speeds, every sound that is not queued has pos
\* within [0, len(clip) - 1], and a sound that does not loop never moves back.
C4_Original ==
    [][/\ C4_PosInRange'
       /\ \A h \in Handles(playingSounds) \cap Handles(playingSounds') :
            ~Sound(playingSounds, h).looping =>
                Sound(playingSounds', h).pos >= Sound(playingSounds, h).pos]_vars

----------------------------------------------------------------------------
(* C5 *)

\* C5 as stated: an update() that has locked the region calls Unlock on it
\* before it returns or aborts, on every path.
C5_Original == ~locked

----------------------------------------------------------------------------
(* C6 *)

\* C6 as stated: an update() that returns the error of Lock, of the cursor
\* query or of Unlock has written nothing to the ring buffer and has left
\* playingSounds (every pos and lastSpeed), queue and lastWritePos as they were.
C6_Original ==
    [][(UpdateStep /\ ret'.err \in {"lock", "cursor", "unlock"}) =>
            /\ tick'.written = <<>>
            /\ UNCHANGED <<playingSounds, queue, nextHandle, lastWritePos>>]_vars

----------------------------------------------------------------------------
(* C7 *)

\* C7: where d is (cursor - lastWritePos) mod mixBufferSize for the cursor that
\* update() read: when 4 divides d, playedSamples is d / 4, within
\* 0 .. mixBufferSize/4 - 1; when it does not, update() panics with
\* playingSounds, queue, nextHandle and lastWritePos untouched, nothing mixed
\* and nothing written.
C7_CursorArithmetic ==
    [][(UpdateStep /\ tick'.cursor # NoSample) =>
        LET d == (tick'.cursor - lastWritePos) % mixBufferSize
        IN  IF d % FrameBytes = 0
            THEN /\ ret'.err # PANIC
                 /\ tick'.played = d \div FrameBytes
                 /\ tick'.played \in 0..((mixBufferSize \div FrameBytes) - 1)
            ELSE /\ ret'.err = PANIC
                 /\ UNCHANGED mixer
                 /\ tick'.mix = <<>>
                 /\ tick'.written = <<>>]_vars

\* update() has panicked on a cursor behind lastWritePos, with a sound in the
\* registry that mixing would have moved
C7_Witness ==
    /\ ret.err = PANIC
    /\ tick.cursor < lastWritePos
    /\ \E i \in 1..Len(playingSounds) :
            ~playingSounds[i].queued /\ playingSounds[i].lastSpeed # 0

----------------------------------------------------------------------------
(* C8 *)

\* the bytes of a region of the ring buffer
RegionBytes(mem) ==
    {(mem.offset + k) % mixBufferSize : k \in 0..(mem.bytes - 1)}

\* the bytes between the play cursor and the write cursor
BeingPlayed(write) == {(write - k) % mixBufferSize : k \in 1..HwLead}

----------------------------------------------------------------------------
(* C9 *)

\* C9 as stated: the update() that reclaims sounds leaves in queue exactly the
\* pairs that do not follow a reclaimed sound, each once and in their order.
C9_Original ==
    [][(UpdateStep /\ ret'.err = "nil" /\ Reclaimed # {}) =>
        queue' = SelectSeq(queue, LAMBDA q : q[1] \notin Reclaimed)]_vars

----------------------------------------------------------------------------
(* C10 *)

\* C10: when update() returns after reclaiming X, every sound that a pair of
\* queue put behind X and that is still in playingSounds is no longer queued.
C10_EveryLinkFires ==
    [][(UpdateStep /\ ret'.err = "nil") =>
        \A k \in 1..Len(queue) :
            (queue[k][1] \in Reclaimed /\ queue[k][2] \in Handles(playingSounds'))
                => ~Sound(playingSounds', queue[k][2]).queued]_vars

\* the sounds the last update() activated: not queued now, yet not mixed
JustActivated ==
    {h \in Handles(playingSounds) :
        /\ Sound(playingSounds, h).looping
        /\ ~Sound(playingSounds, h).queued
        /\ h \notin DOMAIN tick.mix}

\* one update() reclaimed two sounds and activated two that were queued behind
\* the same one, one of them created before the sound it was queued behind
C10_Witness ==
    /\ ret.op = "update" /\ ret.err = "nil"
    /\ Cardinality(tick.reclaimed) >= 2
    /\ \E j, k \in 1..Len(queue) :
            /\ queue[j][1] = queue[k][1] /\ queue[j][1] \in tick.reclaimed
            /\ queue[j][2] # queue[k][2]
            /\ {queue[j][2], queue[k][2]} \subseteq JustActivated
            /\ queue[j][2] < queue[j][1]

----------------------------------------------------------------------------
(* C11 *)

\* C11: a sound that queueLoopAfter created is queued when the call returns;
\* the only step that takes a sound from queued to not queued is an update()
\* that reclaims the sound it was queued behind (stop, setSpeed, the calls
\* that create sounds and the other update() leave it queued); and a sound
\* that is not queued never becomes queued.
C11_OnlyActivationUnqueues ==
    [][/\ (ret'.op = "queueLoopAfter" /\ ret'.handle # invalidSoundHandle) =>
            /\ ret'.handle \in Handles(playingSounds')
            /\ Sound(playingSounds', ret'.handle).queued
       /\ \A b \in Handles(playingSounds) \cap Handles(playingSounds') :
            /\ (Sound(playingSounds, b).queued
                    /\ ~Sound(playingSounds', b).queued) =>
                    /\ UpdateStep
                    /\ \E k \in 1..Len(queue) :
                            queue[k][2] = b /\ queue[k][1] \in Reclaimed
            /\ ~Sound(playingSounds, b).queued =>
                    ~Sound(playingSounds', b).queued]_vars

\* three sounds were created and the one removal was the stop() that just
\* returned: it stopped a sound that another is queued behind, which is
\* still queued
C11_Witness ==
    /\ ret.op = "stop" /\ ret.err = "nil"
    /\ nextHandle = 4 /\ Len(playingSounds) = 2
    /\ \E k \in 1..Len(queue) :
            /\ queue[k][1] \notin Handles(playingSounds)
            /\ 0 < queue[k][1] /\ queue[k][1] < queue[k][2]
            /\ queue[k][2] \in Handles(playingSounds)
            /\ Sound(playingSounds, queue[k][2]).queued

----------------------------------------------------------------------------
(* C12 *)

\* b was created by queueLoopAfter(x, ...) while x was in the registry: b is
\* the handle after the ones issued before it, so x was issued before b, and
\* a handle that is in the registry now has been there since it was issued
C12_CreatedBehindExisting(b) ==
    \E k \in 1..Len(queue) :
        /\ queue[k][2] = b
        /\ queue[k][1] < b
        /\ queue[k][1] \in Handles(playingSounds)

\* C12 as stated: queueLoopAfter with a handle that is not in the registry
\* (never issued, not yet issued, already removed) returns a queued sound and
\* no error, and no later step activates that sound: every sound that a step
\* activates was created behind a sound that was in the registry then.
C12_Original ==
    [][/\ \A atEndOf \in 0..CallHandles, path \in GoodPaths :
            (queueLoopAfter(atEndOf, path)
                /\ atEndOf \notin Handles(playingSounds)) =>
                    /\ ret'.err = "nil"
                    /\ ret'.handle \in Handles(playingSounds')
                    /\ Sound(playingSounds', ret'.handle).queued
       /\ \A b \in Handles(playingSounds) \cap Handles(playingSounds') :
            (Sound(playingSounds, b).queued /\ ~Sound(playingSounds', b).queued)
                => C12_CreatedBehindExisting(b)]_vars

----------------------------------------------------------------------------
(* C13 *)

\* C13: stop(h) and setSpeed(h, v) with a handle h that is not in the
\* registry return an error and leave playingSounds, queue, nextHandle and
\* lastWritePos as they were.
C13_UnknownHandle ==
    [][\A h \in 0..CallHandles :
        ((stop(h) \/ setSpeed(h, 2 * Den)) /\ h \notin Handles(playingSounds)) =>
            /\ ret'.err = "unknown"
            /\ UNCHANGED mixer]_vars

\* setSpeed has just failed on a mixer that holds sounds and pairs and from
\* which a sound has been removed
C13_Witness ==
    /\ ret.op = "setSpeed" /\ ret.err = "unknown"
    /\ playingSounds # <<>> /\ queue # <<>>
    /\ Len(playingSounds) < nextHandle - 1

----------------------------------------------------------------------------
(* C14 *)

\* C14 as stated: play, loop and queueLoopAfter of a clip that cannot be
\* loaded return an error, add no sound, record no pair and leave nextHandle
\* as it was.
C14_Original ==
    [][\A path \in Paths :
        (/\ loadRawSamples(path).err # "nil"
         /\ \/ play(path)
            \/ loop(path)
            \/ \E atEndOf \in 0..CallHandles : queueLoopAfter(atEndOf, path)) =>
            /\ ret'.err # "nil"
            /\ UNCHANGED <<playingSounds, queue, nextHandle>>]_vars

----------------------------------------------------------------------------
(* C15 *)

\* C15: stop(h) with h in the registry returns no error and removes the sound
\* with handle h and nothing else: the other sounds keep their fields and
\* their order, queue, nextHandle and lastWritePos are as they were; a handle
\* that has left the registry does not come back, and stop and setSpeed on it
\* fail as unknown.
C15_StopRemovesOne ==
    [][\A h \in 1..CallHandles :
        /\ (stop(h) /\ h \in Handles(playingSounds)) =>
                /\ ret'.err = "nil"
                /\ playingSounds' =
                        SelectSeq(playingSounds, LAMBDA s : s.handle # h)
                /\ Len(playingSounds') = Len(playingSounds) - 1
                /\ UNCHANGED <<queue, nextHandle, lastWritePos>>
        /\ (h < nextHandle /\ h \notin Handles(playingSounds)) =>
                /\ h \notin Handles(playingSounds')
                /\ (stop(h) \/ setSpeed(h, 2 * Den)) => ret'.err = "unknown"]_vars

\* three sounds were created and the one removal was the stop() that just
\* returned: it took the second of them, with a pair in the queue
C15_Witness ==
    /\ ret.op = "stop" /\ ret.err = "nil"
    /\ nextHandle = 4 /\ Len(playingSounds) = 2
    /\ playingSounds[1].handle = 1 /\ playingSounds[2].handle = 3
    /\ queue # <<>>

----------------------------------------------------------------------------
(* C16 *)

\* C16: setSpeed(h, v) with h in the registry returns no error and changes
\* the speed of the sound with handle h to v and nothing else: handle, clip,
\* pos, lastSpeed, looping and queued of every sound, the speed of the other
\* sounds, the length and order of playingSounds, queue, nextHandle and
\* lastWritePos are as they were; and a call that is not update() mixes
\* nothing and writes nothing to the ring buffer.
C16_SetSpeedOnlySpeed ==
    [][/\ \A h \in 1..MaxHandle, v \in Speeds :
            (setSpeed(h, v) /\ h \in Handles(playingSounds)) =>
                /\ ret'.err = "nil"
                /\ Len(playingSounds') = Len(playingSounds)
                /\ \A i \in 1..Len(playingSounds) :
                        LET s == playingSounds[i]
                            t == playingSounds'[i]
                        IN  /\ t.handle = s.handle /\ t.path = s.path
                            /\ t.pos = s.pos /\ t.lastSpeed = s.lastSpeed
                            /\ t.looping = s.looping /\ t.queued = s.queued
                            /\ t.speed = IF s.handle = h THEN v ELSE s.speed
                /\ UNCHANGED <<queue, nextHandle, lastWritePos>>
       /\ ~UpdateStep => (tick'.mix = <<>> /\ tick'.written = <<>>)]_vars

\* setSpeed has just made a sound that has played forwards run backwards,
\* with a second sound in the registry
C16_Witness ==
    /\ ret.op = "setSpeed" /\ ret.err = "nil"
    /\ Len(playingSounds) = 2
    /\ \E i \in 1..Len(playingSounds) :
            /\ playingSounds[i].speed < 0
            /\ playingSounds[i].lastSpeed > 0
            /\ playingSounds[i].pos > 0

----------------------------------------------------------------------------
(* C17 *)

\* the step appended one sound of the clip to playingSounds, at pos 0 and
\* speed 1, and returned its handle, which no other sound has
C17_Appended(path, looping, queued) ==
    LET n == Len(playingSounds)
    IN  /\ ret'.err = "nil"
        /\ Len(playingSounds') = n + 1
        /\ SubSeq(playingSounds', 1, n) = playingSounds
        /\ playingSounds'[n + 1].handle = ret'.handle
        /\ ret'.handle \notin Handles(playingSounds)
        /\ ret'.handle # invalidSoundHandle
        /\ playingSounds'[n + 1].path = path
        /\ playingSounds'[n + 1].pos = 0
        /\ playingSounds'[n + 1].speed = Den
        /\ playingSounds'[n + 1].looping = looping
        /\ playingSounds'[n + 1].queued = queued

\* C17: with a clip that loads, play appends one sound with pos 0, speed 1,
\* not looping, not queued; loop the same but looping; queueLoopAfter(X, clip)
\* one that is looping and queued, and appends the one pair (X, its handle) to
\* queue; each returns the handle of the new sound and leaves the sounds and
\* pairs that were there as they were.
C17_Creation ==
    [][\A path \in Paths :
        loadRawSamples(path).err = "nil" =>
            /\ play(path) => (C17_Appended(path, FALSE, FALSE) /\ UNCHANGED queue)
            /\ loop(path) => (C17_Appended(path, TRUE, FALSE) /\ UNCHANGED queue)
            /\ \A atEndOf \in 0..CallHandles :
                    queueLoopAfter(atEndOf, path) =>
                        /\ C17_Appended(path, TRUE, TRUE)
                        /\ queue' = Append(queue, <<atEndOf, ret'.handle>>)]_vars

\* queueLoopAfter has just added a sound and a second pair to a mixer whose
\* sounds have played
C17_Witness ==
    /\ ret.op = "queueLoopAfter" /\ ret.handle # invalidSoundHandle
    /\ Len(playingSounds) >= 2 /\ Len(queue) >= 2
    /\ queue[Len(queue)][2] = ret.handle
    /\ \E i \in 1..Len(playingSounds) : playingSounds[i].pos > 0

----------------------------------------------------------------------------
(* C18 *)

\* the update() of the step moved s to pos1 by playedSamples * lastSpeed
\* (a looping sound: wrapped into its clip) and took slot i of the window
\* from pos1 + i * speed
C18_AdvancedAndMixed(h, s, pos1) ==
    /\ IF s.looping THEN AdvancedLooping(s, tick'.played, pos1)
       ELSE pos1 = s.pos + tick'.played * s.lastSpeed
    /\ h \in Handles(playingSounds') => Sound(playingSounds', h).pos = pos1
    /\ h \in DOMAIN tick'.mix
    /\ \A i \in 1..soundWriteAheadSamples :
            tick'.mix[h][i] = slotIndex([s EXCEPT !.pos = pos1], i - 1)

\* C18: every update() that mixes advances each sound that is not queued by
\* playedSamples * lastSpeed and takes slot i of its window from the advanced
\* pos + i * speed, with the speed of now; lastSpeed changes in no step but a
\* successful update(), which leaves it at the speed of that moment, so a
\* setSpeed since then changes the slots and not the advance.
C18_TwoSpeeds ==
    [][/\ RenderStep =>
            \A h \in Handles(playingSounds) :
                LET s == Sound(playingSounds, h)
                IN  ~s.queued =>
                        \E pos1 \in (IF s.looping THEN 0..LastIndex(s)
                                      ELSE {s.pos + tick'.played * s.lastSpeed}) :
                            C18_AdvancedAndMixed(h, s, pos1)
       /\ \A h \in Handles(playingSounds) \cap Handles(playingSounds') :
            /\ Sound(playingSounds', h).lastSpeed # Sound(playingSounds, h).lastSpeed
                    => (UpdateStep /\ ret'.err = "nil")
            /\ (UpdateStep /\ ret'.err = "nil") =>
                    Sound(playingSounds', h).lastSpeed = Sound(playingSounds, h).speed]_vars

\* an update() has mixed a sound whose speed was set to 2 after the last
\* successful update(), which left it at lastSpeed 1: it has moved by one
\* frame at speed 1, from 0 to 1, and its slots are two samples apart
C18_Witness ==
    /\ ret.op = "update" /\ ret.err = "unlock"
    /\ tick.played = 1
    /\ \E i \in 1..Len(playingSounds) :
            /\ ~playingSounds[i].looping /\ ~playingSounds[i].queued
            /\ playingSounds[i].lastSpeed = Den
            /\ playingSounds[i].speed = 2 * Den
            /\ playingSounds[i].pos = Den
            /\ tick.mix[playingSounds[i].handle] = <<1, NoSample>>

----------------------------------------------------------------------------
(* C19 *)

\* where update() leaves the pos of s before it looks for sounds that are over
C19_AdvancedTo(s, pos1) ==
    IF s.queued THEN pos1 = s.pos
    ELSE IF s.looping THEN AdvancedLooping(s, tick'.played, pos1)
    ELSE pos1 = s.pos + tick'.played * s.lastSpeed

\* C19: a successful update() removes a sound if and only if it does not loop
\* and its advanced pos is >= len(clip) - 1; it removes no looping and no
\* queued sound; the sounds that stay keep their order and their handle,
\* clip, advanced pos, speed and looping.
C19_ReclaimsFinished ==
    [][(UpdateStep /\ ret'.err = "nil") =>
        LET stay == Handles(playingSounds')
            kept == SelectSeq(playingSounds, LAMBDA s : s.handle \in stay)
        IN  /\ stay \subseteq Handles(playingSounds)
            /\ \A h \in Handles(playingSounds) :
                    LET s == Sound(playingSounds, h)
                    IN  /\ h \notin stay <=>
                                (/\ ~s.looping
                                 /\ ~s.queued
                                 /\ s.pos + tick'.played * s.lastSpeed
                                        >= LastIndex(s))
                        /\ (s.looping \/ s.queued) => h \in stay
            /\ Len(playingSounds') = Len(kept)
            /\ \A i \in 1..Len(kept) :
                    /\ playingSounds'[i].handle = kept[i].handle
                    /\ playingSounds'[i].path = kept[i].path
                    /\ playingSounds'[i].speed = kept[i].speed
                    /\ playingSounds'[i].looping = kept[i].looping
                    /\ C19_AdvancedTo(kept[i], playingSounds'[i].pos)]_vars

\* update() has reclaimed the first of three sounds and kept, in their order,
\* a looping sound that has played and a sound that has not reached its end
C19_Witness ==
    /\ ret.op = "update" /\ ret.err = "nil"
    /\ tick.reclaimed = {1}
    /\ Len(playingSounds) = 2
    /\ playingSounds[1].handle = 2 /\ playingSounds[2].handle = 3
    /\ playingSounds[1].looping /\ playingSounds[1].pos > 0
    /\ ~playingSounds[2].looping

----------------------------------------------------------------------------
(* C20 *)

\* C20: when a successful update() returns, every sound in the registry,
\* queued or not, has lastSpeed = speed, and lastWritePos is the cursor that
\* this update() read and measured playedSamples to.
C20_Snapshot ==
    [][(UpdateStep /\ ret'.err = "nil") =>
        /\ \A i \in 1..Len(playingSounds') :
                playingSounds'[i].lastSpeed = playingSounds'[i].speed
        /\ lastWritePos' = tick'.cursor
        /\ tick'.played =
                ((tick'.cursor - lastWritePos) % mixBufferSize) \div FrameBytes]_vars

\* update() has returned with a queued sound and a sound that runs backwards
\* in the registry, after the hardware has played on
C20_Witness ==
    /\ ret.op = "update" /\ ret.err = "nil"
    /\ tick.played > 0 /\ tick.cursor > 0
    /\ \E i, j \in 1..Len(playingSounds) :
            /\ playingSounds[i].queued
            /\ ~playingSounds[j].queued
            /\ playingSounds[j].speed < 0

----------------------------------------------------------------------------
(* wrapSoundPos, one loop iteration at a time *)

\* clips of 1..MaxClip samples are wrapped
MaxClip == 3
\* from positions of -WrapReach..WrapReach samples
WrapReach == 3

\* a period of the whole length of the clip
wrapPeriodLen(sampleCount) == sampleCount * Den

\* line 296: n
wrapPeriod(sampleCount) == (sampleCount - 1) * Den

\* the call wrapSoundPos(pos, sampleCount) at its first loop; turn is the
\* parity of the loop iterations made
wrapCall(pos, sampleCount) ==
    [pc |-> "up", pos |-> pos, n |-> wrapPeriod(sampleCount), arg |-> pos,
     sampleCount |-> sampleCount, turn |-> 0]

InitWrap ==
    /\ playingSounds = <<>>
    /\ queue = <<>>
    /\ nextHandle = 1
    /\ lastWritePos = 0
    /\ loadedSounds = {}
    /\ locked = FALSE
    /\ ret = [op |-> "init", handle |-> 0, err |-> "nil"]
    /\ maxReturned = 0
    /\ \E sampleCount \in 1..MaxClip,
          pos \in (-WrapReach * Den)..(WrapReach * Den) :
            tick = wrapCall(pos, sampleCount)

\* lines 297-299: for pos < 0 { pos += n }
wrapUpStep ==
    /\ tick.pc = "up"
    /\ tick' = IF tick.pos < 0
               THEN [tick EXCEPT !.pos = @ + tick.n, !.turn = 1 - @]
               ELSE [tick EXCEPT !.pc = "down"]
    /\ UNCHANGED <<mixer, loadedSounds, locked, ret, maxReturned>>

\* lines 300-303: for pos > n { pos -= n }; return pos
wrapDownStep ==
    /\ tick.pc = "down"
    /\ tick' = IF tick.pos > tick.n
               THEN [tick EXCEPT !.pos = @ - tick.n, !.turn = 1 - @]
               ELSE [tick EXCEPT !.pc = "done"]
    /\ UNCHANGED <<mixer, loadedSounds, locked, ret, maxReturned>>

NextWrap ==
    \/ wrapUpStep
    \/ wrapDownStep

\* a call that has started goes on running
SpecWrap == InitWrap /\ [][NextWrap]_vars /\ WF_vars(NextWrap)

----------------------------------------------------------------------------
(* C21 *)

----------------------------------------------------------------------------
(* C28 *)

\* C28: every call of wrapSoundPos that update() makes returns, for clips
\* of every length from 1 sample on and every position, so update()
\* terminates.
C28_Original == <>(tick.pc = "done")

----------------------------------------------------------------------------
(* One slot and one channel of the window: accumulate, clamp *)

\* the largest sample value (32767 in the program, an int16)
SampleMax == 3
\* the largest value of the accumulator (2147483647 in the program, an int32)
MixMax == 7
\* sounds in the registry when a window is mixed
MaxVoices == 3

SampleMin == -SampleMax - 1
\* the sample values looked at: the two extremes, silence and its neighbours
SampleValues == {SampleMin, -1, 0, 1, SampleMax}
\* what a sound of the registry has at the slot: its sample there, and
\* whether it is queued; the queued sounds looked at are loud ones
Voices ==
    {[sample |-> v, queued |-> FALSE] : v \in SampleValues}
        \cup {[sample |-> SampleMax, queued |-> TRUE]}

RECURSIVE VoiceLists(_)
VoiceLists(n) ==
    IF n = 0 THEN {<<>>}
    ELSE LET shorter == VoiceLists(n - 1)
         IN  shorter \cup {Append(l, v) : l \in {k \in shorter : Len(k) = n - 1},
                                          v \in Voices}

\* the accumulator keeps its width: two's complement wrap-around
toInt32(x) == ((x + MixMax + 1) % (2 * (MixMax + 1))) - MixMax - 1

\* an accumulator that is not cleared
keepMix(acc) == acc

\* lines 186-190: the accumulator is cleared
resetMix(acc) == 0

\* a mixing that halves the sum at every sound
addSampleHalved(acc, sample) == toInt32((acc + sample) \div 2)

\* lines 229-231: += int32(sample)
addSample(acc, sample) == toInt32(acc + sample)

\* lines 209-234 for one slot: queued sounds are skipped (line 212), the
\* others added in the order of the registry
RECURSIVE mixVoices(_, _)
mixVoices(acc, voices) ==
    IF voices = <<>> THEN acc
    ELSE mixVoices(IF Head(voices).queued THEN acc
                   ELSE addSample(acc, Head(voices).sample),
                   Tail(voices))

\* lines 238-246: the clamp and the conversion to int16
clampSample(x) ==
    IF x > SampleMax THEN SampleMax
    ELSE IF x < SampleMin THEN SampleMin
    ELSE x

\* tick.before: the accumulator that the update() found; tick.acc: the
\* accumulator when the sounds are mixed; tick.out: the sample written
InitMix ==
    /\ playingSounds = <<>>
    /\ queue = <<>>
    /\ nextHandle = 1
    /\ lastWritePos = 0
    /\ loadedSounds = {}
    /\ locked = FALSE
    /\ ret = [op |-> "init", handle |-> 0, err |-> "nil"]
    /\ maxReturned = 0
    /\ tick = [before |-> 0, acc |-> 0, out |-> 0, voices |-> <<>>]

\* one update() that gets to write, seen at one slot and one channel
mixTick(voices) ==
    LET acc == mixVoices(resetMix(tick.acc), voices)
    IN  /\ tick' = [before |-> tick.acc, acc |-> acc, out |-> clampSample(acc),
                    voices |-> voices]
        /\ UNCHANGED <<mixer, loadedSounds, locked, ret, maxReturned>>

NextMix == \E voices \in VoiceLists(MaxVoices) : mixTick(voices)

SpecMix == InitMix /\ [][NextMix]_vars

\* the samples of the sounds that are not queued
Playing(voices) ==
    [k \in 1..Len(SelectSeq(voices, LAMBDA v : ~v.queued)) |->
        SelectSeq(voices, LAMBDA v : ~v.queued)[k].sample]

RECURSIVE Sum(_)
Sum(samples) == IF samples = <<>> THEN 0 ELSE Head(samples) + Sum(Tail(samples))

----------------------------------------------------------------------------
(* C22 *)

\* C22: the sample written is the exact integer sum of the samples of the
\* sounds that contribute, clamped to the range of a sample, for any number
\* of sounds: the accumulator never wraps around before the clamp.
C22_Original ==
    LET sum == Sum(Playing(tick.voices))
    IN  tick.out = IF sum > SampleMax THEN SampleMax
                   ELSE IF sum < SampleMin THEN SampleMin
                   ELSE sum

----------------------------------------------------------------------------
(* C24 *)

\* C24: an update() in which the registry is empty, or holds only queued
\* sounds, or only sounds whose sample is zero, writes zero, whatever the
\* accumulator held from the update() before.
C24_Silence ==
    (\A k \in 1..Len(tick.voices) :
        tick.voices[k].queued \/ tick.voices[k].sample = 0)
    => tick.acc = 0 /\ tick.out = 0

\* after an update() that left the accumulator at a value other than zero,
\* an update() with a loud queued sound and a silent playing one has written
C24_Witness ==
    /\ tick.before # 0
    /\ tick.out = 0
    /\ \E k \in 1..Len(tick.voices) :
            tick.voices[k].queued /\ tick.voices[k].sample # 0
    /\ \E k \in 1..Len(tick.voices) :
            ~tick.voices[k].queued /\ tick.voices[k].sample = 0

----------------------------------------------------------------------------
(* C25 *)

Perms(n) == {f \in [1..n -> 1..n] : \A i, j \in 1..n : f[i] = f[j] => i = j}

\* C25: mixing is plain addition: the accumulator is the sum of the samples
\* of the sounds that are not queued (as far as the accumulator holds the
\* sum), two sounds whose samples are exact negatives add up to zero, and
\* the registry in any other order gives the same accumulator and the same
\* sample written.
C25_Superposition ==
    LET n == Len(tick.voices)
        samples == Playing(tick.voices)
    IN  /\ (-MixMax - 1 <= Sum(samples) /\ Sum(samples) <= MixMax)
                => tick.acc = Sum(samples)
        /\ (Len(samples) = 2 /\ samples[1] = -samples[2])
                => tick.acc = 0 /\ tick.out = 0
        /\ \A f \in Perms(n) :
                LET other == mixVoices(0, [k \in 1..n |-> tick.voices[f[k]]])
                IN  other = tick.acc /\ clampSample(other) = tick.out

\* two sounds with opposite samples have been mixed, and so have three
\* sounds of which the loudest is not the first
C25_Witness ==
    \/ /\ Len(Playing(tick.voices)) = 2
       /\ Playing(tick.voices)[1] = 1
       /\ Playing(tick.voices)[2] = -1
       /\ tick.before # 0
       /\ tick.acc = 0
    \/ /\ Len(Playing(tick.voices)) = 3
       /\ Playing(tick.voices)[1] = -1
       /\ Playing(tick.voices)[2] = SampleMax
       /\ Playing(tick.voices)[3] = 1
       /\ tick.acc = SampleMax

----------------------------------------------------------------------------
(* C23 *)

Abs(x) == IF x < 0 THEN -x ELSE x

\* the whole number nearest to the position x, the one further from zero
\* when two are equally near
Nearest(x) ==
    CHOOSE j \in (-PosFloor - 2 * WindowFrames - 1)..(PosCeil + 2 * WindowFrames + 1) :
        \/ 2 * Abs(x - j * Den) < Den
        \/ 2 * Abs(x - j * Den) = Den /\ Abs(j * Den) > Abs(x)

\* the source position of slot i of the window that the step renders for the
\* sound s of the registry before the step
SrcPos(s, i) == s.pos + tick'.played * s.lastSpeed + i * s.speed

\* C23 as the specification states it: for a sound that does not loop, a
\* slot whose source position pos + i * speed lies outside [0, len - 1], by
\* however little, gets nothing from the sound, and a slot whose source
\* position lies inside gets the frame nearest to it, ties away from zero.
C23_Original ==
    [][RenderStep =>
        \A h \in DOMAIN tick'.mix :
            LET s == Sound(playingSounds, h)
            IN  ~s.looping =>
                \A i \in 0..(soundWriteAheadSamples - 1) :
                    tick'.mix[h][i + 1] =
                        IF SrcPos(s, i) < 0 \/ SrcPos(s, i) > LastIndex(s)
                        THEN NoSample
                        ELSE Nearest(SrcPos(s, i))]_vars

\* C23: for a sound that does not loop, a slot gets the frame whose index is
\* the whole number nearest to its source position pos + i * speed, ties
\* away from zero, when that index is one of 0..len - 1, and nothing
\* otherwise: positions in (-1/2, 0) get frame 0, positions in
\* (len - 1, len - 1/2) get the last frame.
C23_NearestFrame ==
    [][RenderStep =>
        \A h \in DOMAIN tick'.mix :
            LET s == Sound(playingSounds, h)
            IN  ~s.looping =>
                \A i \in 0..(soundWriteAheadSamples - 1) :
                    tick'.mix[h][i + 1] =
                        IF Nearest(SrcPos(s, i)) \in 0..(SampleCount(s.path) - 1)
                        THEN Nearest(SrcPos(s, i))
                        ELSE NoSample]_vars

\* a window has been rendered for a sound that does not loop and stands
\* less than half a frame before its first frame, which the first slot got
C23_Witness ==
    /\ ret.op = "update" /\ Rendered
    /\ \E k \in 1..Len(playingSounds) :
            /\ ~playingSounds[k].looping
            /\ playingSounds[k].pos < 0
            /\ 2 * playingSounds[k].pos > -Den
            /\ playingSounds[k].handle \in DOMAIN tick.mix
            /\ tick.mix[playingSounds[k].handle][1] = 0

----------------------------------------------------------------------------
(* The clip store *)

\* the paths that are loaded
StorePaths == AssetFiles \cup {"missing.raw"}

\* lines 341-344
preload(path) ==
    LET raw == loadRawSamples(path)
    IN  /\ Running
        /\ loadedSounds' = raw.cache
        /\ Returned("preload", invalidSoundHandle, raw.err)
        /\ tick' = NoTick
        /\ UNCHANGED <<mixer, locked>>

NextLoad == \E path \in StorePaths : preload(path)

SpecLoad == Init /\ [][NextLoad]_vars

----------------------------------------------------------------------------
(* C27 *)

\* the audio of the file is what the mixer plays
Fits(path) == FileRate(path) = 44100 /\ FileChannels(path) = 2

\* a load that succeeds caches the data, a load of what is cached returns the
\* same data and leaves the cache alone, a file of an unknown kind fails and
\* caches nothing
StoreKeeps(path) ==
    /\ ret'.err = "nil" =>
            /\ loadedSounds' = loadedSounds \cup {path}
            /\ loadRawSamples(path).data = path
    /\ path \in loadedSounds =>
            /\ ret'.err = "nil"
            /\ loadedSounds' = loadedSounds
    /\ (path \in AssetFiles /\ path \notin loadedSounds
            /\ Suffix(path) \notin {"raw", "ogg", "mp3"}) =>
            /\ ret'.err # "nil"
            /\ loadedSounds' = loadedSounds
    /\ ret'.err # "nil" => loadedSounds' = loadedSounds

\* C27 as the specification states it: a load of a .raw, .ogg or .mp3 file
\* whose audio is not 44100 Hz with 2 channels fails and leaves the cache as
\* it was; a load that succeeds caches the data and later loads return the
\* same data without changing the cache; an unknown kind of file fails and
\* caches nothing.
C27_Original ==
    [][\A path \in StorePaths : preload(path) =>
        /\ (path \in AssetFiles /\ Suffix(path) \in {"raw", "ogg", "mp3"}
                /\ Decodes(path) /\ ~Fits(path)) =>
                /\ ret'.err # "nil"
                /\ loadedSounds' = loadedSounds
        /\ StoreKeeps(path)]_vars

\* C27: a load of an .ogg file whose audio is not 44100 Hz with 2 channels,
\* or of an .mp3 file whose audio is not 44100 Hz, fails and leaves the cache
\* as it was; a .raw file is taken as it is and an .mp3 file is not asked for
\* its channels, so both load whatever their audio is; a load that succeeds
\* caches the data and later loads return the same data without changing the
\* cache; an unknown kind of file fails and caches nothing.
C27_ClipStore ==
    [][\A path \in StorePaths : preload(path) =>
        /\ (path \in AssetFiles /\ path \notin loadedSounds /\ Decodes(path)
                /\ \/ Suffix(path) = "ogg" /\ ~Fits(path)
                   \/ Suffix(path) = "mp3" /\ FileRate(path) # 44100) =>
                /\ ret'.err = "format"
                /\ loadedSounds' = loadedSounds
        /\ (path \in AssetFiles
                /\ \/ Suffix(path) = "raw"
                   \/ Suffix(path) = "mp3" /\ Decodes(path)
                            /\ FileRate(path) = 44100) =>
                /\ ret'.err = "nil"
                /\ path \in loadedSounds'
        /\ StoreKeeps(path)]_vars

\* with a .raw file of mono audio and an .ogg file in the cache, a load has
\* failed for the format of its file
C27_Witness ==
    /\ ret.op = "preload" /\ ret.err = "format"
    /\ loadedSounds = {"mono.raw", "b.ogg"}

----------------------------------------------------------------------------
(* The long clip played at twice its speed *)

\* play of the clip of ScenarioFrames samples, setSpeed(2), and then update()
\* at every frame that the hardware plays, for as long as the sound is in
\* the registry
NextScenario ==
    \/ nextHandle = 1 /\ play("long.raw")
    \/ /\ playingSounds # <<>>
       /\ playingSounds[1].speed # 2 * Den
       /\ setSpeed(1, 2 * Den)
    \/ \E d2 \in Drift :
            /\ playingSounds # <<>>
            /\ playingSounds[1].speed = 2 * Den
            /\ update("nil", (lastWritePos + FrameBytes) % mixBufferSize,
                      0, d2, 0)

SpecScenario == Init /\ [][NextScenario]_vars

----------------------------------------------------------------------------
(* C26 *)

\* the update() calls that the sound s has been through: none as long as
\* lastSpeed is as it was created; the steps of the scenario count it up
Seen(s) == IF s.lastSpeed = 0 THEN 0 ELSE s.pos \div (2 * Den) + 1

\* C26 as the specification states it: the clip of 100 samples at speed 2,
\* one frame played from one update() to the next: pos advances by 2 in
\* every update() and the sound is removed in the 50th update() after its
\* creation, not earlier and not later.
C26_Original ==
    [][(UpdateStep /\ playingSounds # <<>>) =>
        LET nth == Seen(playingSounds[1]) + 1
        IN  /\ playingSounds' = <<>> <=> nth = ScenarioFrames \div 2
            /\ playingSounds' # <<>> =>
                    playingSounds'[1].pos = playingSounds[1].pos + 2 * Den]_vars

\* C26: the clip of 100 samples at speed 2, one frame played from one
\* update() to the next: the first update() after the creation leaves pos at
\* 0, every later one advances it by 2, so that pos is 2 * (n - 1) after the
\* n-th update(), and the sound is removed in the 51st update() after its
\* creation, not earlier and not later.
C26_FiftyFirst ==
    [][/\ (ret'.op = "play" /\ ret'.err = "nil") =>
                Seen(playingSounds'[1]) = 0
       /\ (ret'.op = "setSpeed" /\ playingSounds # <<>>) =>
                Seen(playingSounds'[1]) = Seen(playingSounds[1])
       /\ (UpdateStep /\ playingSounds # <<>>) =>
            LET nth == Seen(playingSounds[1]) + 1
            IN  /\ playingSounds' = <<>> <=> nth = ScenarioFrames \div 2 + 1
                /\ playingSounds' # <<>> =>
                        /\ Seen(playingSounds'[1]) = nth
                        /\ playingSounds'[1].pos = 2 * Den * (nth - 1)]_vars

\* the update() that removes the sound from the registry has returned
C26_Witness ==
    /\ ret.op = "update" /\ ret.err = "nil"
    /\ nextHandle = 2
    /\ playingSounds = <<>>
    /\ tick.reclaimed = {1}

----------------------------------------------------------------------------
(* C30 *)

\* the step is an update() that returns nil, after an update() that returned
\* nil and update() calls only; h was mixed in both
Overlap(h) ==
    /\ UpdateStep /\ ret'.err = "nil"
    /\ Rendered
    /\ h \in DOMAIN tick.last
    /\ h \in DOMAIN tick'.mix

\* C30: of two consecutive update() calls that return nil, with k frames
\* played between them, k less than the window, and the speed of a sound not
\* changed between them, the later one reads for slot i of its window the
\* source index that the earlier one read for slot k + i, for sounds that
\* loop, across the wrap, and for sounds that do not.
C30_Original ==
    [][\A h \in Handles(playingSounds) : Overlap(h) =>
        \A i \in 0..(soundWriteAheadSamples - 1) :
            tick'.played + i < soundWriteAheadSamples =>
                tick'.mix[h][i + 1] = tick.last[h][tick'.played + i + 1]]_vars

\* the same of two update() calls that return nil with no call between them
C30_Adjacent ==
    [][\A h \in Handles(playingSounds) : (Overlap(h) /\ ret.err = "nil") =>
        \A i \in 0..(soundWriteAheadSamples - 1) :
            tick'.played + i < soundWriteAheadSamples =>
                tick'.mix[h][i + 1] = tick.last[h][tick'.played + i + 1]]_vars

----------------------------------------------------------------------------
(* The progress of the sounds *)

\* speeds that leave every position within what is explored: 0 and 2
LiveSpeeds == {0, 2 * Den}

\* update() returns nil and the hardware has played a frame since
updatePlayed == update("nil", (lastWritePos + FrameBytes) % mixBufferSize, 0, 0, 0)

\* update() returns at a failed Lock, or nothing was played
updateIdle == \E fail \in {"nil", "lock"} : update(fail, lastWritePos, 0, 0, 0)

\* a sound is played once, sounds are queued behind it; they are stopped,
\* the first one is held and let go
NextLive ==
    \/ \E path \in GoodPaths : nextHandle = 1 /\ play(path)
    \/ \E path \in GoodPaths :
            /\ 1 < nextHandle /\ nextHandle <= LiveHandles
            /\ queueLoopAfter(1, path)
    \/ \E handle \in 1..LiveHandles : stop(handle)
    \/ \E speed \in LiveSpeeds : setSpeed(1, speed)
    \/ updatePlayed
    \/ updateIdle

\* the game calls update() in every frame and the hardware goes on playing:
\* again and again update() returns nil with frames played
SpecLive == Init /\ [][NextLive]_vars /\ WF_vars(updatePlayed)

----------------------------------------------------------------------------
(* C29 *)

\* h is in the registry and plays a clip once
PlaysOnce(h) ==
    /\ h \in Handles(playingSounds)
    /\ ~Sound(playingSounds, h).looping
    /\ ~Sound(playingSounds, h).queued

\* h is gone, or has a speed that does not move it forward
GoneOrHeld(h) ==
    \/ h \notin Handles(playingSounds)
    \/ Sound(playingSounds, h).speed <= 0

\* a sound that plays once and keeps a speed above 0 is removed in the end
Finishes == PlaysOnce(1) ~> GoneOrHeld(1)

\* and the sounds queued behind it, unless they or it are stopped, are
\* played in the end
FollowersStart ==
    \A h \in {1}, y \in 2..LiveHandles :
        (/\ PlaysOnce(h)
         /\ \E k \in 1..Len(queue) : queue[k] = <<h, y>>
         /\ y \in Handles(playingSounds)
         /\ Sound(playingSounds, y).queued)
        ~> (\/ y \notin Handles(playingSounds)
            \/ ~Sound(playingSounds, y).queued
            \/ h \in Handles(playingSounds) /\ Sound(playingSounds, h).speed <= 0
            \/ ret.op = "stop" /\ h \notin Handles(playingSounds))

\* C29 as the specification states it: when update() returns nil with
\* frames played again and again, a sound that plays once and keeps a speed
\* above 0 and is not stopped is removed in the end, and every sound queued
\* behind it that is not stopped leaves the queue in the end; and update()
\* never removes a sound that plays once while its speed is 0 or less.
C29_Original ==
    /\ Finishes
    /\ FollowersStart
    /\ [][\A h \in Handles(playingSounds) :
            (/\ UpdateStep
             /\ ~Sound(playingSounds, h).looping
             /\ Sound(playingSounds, h).speed <= 0)
            => h \in Handles(playingSounds')]_vars

\* C29: when update() returns nil with frames played again and again, a
\* sound that plays once and keeps a speed above 0 and is not stopped is
\* removed in the end, and every sound queued behind it that is not stopped
\* leaves the queue in the end; and update() never removes a sound that
\* plays once, stands before its last sample and had a speed of 0 or less
\* already when the update() before returned (lastSpeed and speed are both
\* 0 or less).
C29_Progress ==
    /\ Finishes
    /\ FollowersStart
    /\ [][\A h \in Handles(playingSounds) :
            (/\ UpdateStep
             /\ ~Sound(playingSounds, h).looping
             /\ Sound(playingSounds, h).speed <= 0
             /\ Sound(playingSounds, h).lastSpeed <= 0
             /\ Sound(playingSounds, h).pos < LastIndex(Sound(playingSounds, h)))
            => h \in Handles(playingSounds')]_vars

\* update() has removed the first sound, at its end, and the sound queued
\* behind it plays
C29_Witness ==
    /\ ret.op = "update" /\ ret.err = "nil"
    /\ tick.reclaimed = {1}
    /\ tick.played > 0
    /\ Len(playingSounds) = 1
    /\ playingSounds[1].handle = 2
    /\ ~playingSounds[1].queued

----------------------------------------------------------------------------
(* C31 *)

\* C31 as the specification states it: however the hardware's cursor moves
\* while update() runs, the offset of the ring buffer at which the window is
\* written, the write cursor of the moment of the Lock, is the cursor that
\* the same update() measures playedSamples to and stores in lastWritePos.
C31_Original ==
    [][(UpdateStep /\ tick'.written # <<>>) =>
        /\ tick'.written.offset = tick'.cursor
        /\ ret'.err = "nil" => lastWritePos' = tick'.written.offset]_vars

----------------------------------------------------------------------------
(* C32 *)

\* the frames by which a cursor at byte b is ahead of one at byte a
Ahead(a, b) == ((b - a) % mixBufferSize) \div FrameBytes

\* the bytes that the hardware's write cursor passes in g frames from byte a
Passed(a, g) == {(a + k) % mixBufferSize : k \in 0..(FrameBytes * g - 1)}

\* the hardware times, in frames and up to two laps of the ring buffer, that
\* may lie between the Lock of the update() before and the Lock of the step:
\* the cursor is where the step finds it, and the hardware has not gone back
\* behind where the update() before left it
Gaps ==
    {g \in 0..(2 * BufFrames) :
        /\ g % BufFrames = Ahead(tick.hwAtLock, tick'.hwAtLock)
        /\ g >= Ahead(tick.hwAtLock, tick.hwAtWrite)}

----------------------------------------------------------------------------
(* C33 *)

\* C33 as the specification states it: a sound that a reclaim has taken out
\* of the queue starts at the beginning of its clip: the update() after the
\* one that reclaimed the sound before it, the first to render it, renders
\* it with pos still 0, so that slot 0 of that window reads source index 0,
\* whatever playedSamples is.
C33_Original ==
    [][(ret.op = "update" /\ ret.err = "nil" /\ RenderStep) =>
        \A h \in JustActivated :
            /\ tick'.mix[h][1] = 0
            /\ Sound(playingSounds', h).pos = 0]_vars

----------------------------------------------------------------------------
(* C34 *)

\* C34: a sound that play or loop has created has lastSpeed 0 and pos 0 when
\* the call returns, and keeps both until an update() returns nil (setSpeed
\* changes neither); an update() that renders it while its lastSpeed is 0
\* does not advance it: it is rendered at pos 0, slot 0 of the window reads
\* source index 0, whatever playedSamples is and whatever speed was set.
C34_FirstUpdateStays ==
    [][/\ (ret'.op \in {"play", "loop"} /\ ret'.err = "nil") =>
            /\ Sound(playingSounds', ret'.handle).lastSpeed = 0
            /\ Sound(playingSounds', ret'.handle).pos = 0
       /\ \A h \in Handles(playingSounds) :
            LET s == Sound(playingSounds, h)
            IN  (~s.queued /\ s.lastSpeed = 0) =>
                    /\ s.pos = 0
                    /\ (~UpdateStep /\ h \in Handles(playingSounds')) =>
                            /\ Sound(playingSounds', h).lastSpeed = 0
                            /\ Sound(playingSounds', h).pos = 0
                    /\ RenderStep =>
                            /\ tick'.mix[h][1] = 0
                            /\ \A i \in 1..soundWriteAheadSamples :
                                    tick'.mix[h][i] =
                                        slotIndex([s EXCEPT !.pos = 0], i - 1)
                            /\ h \in Handles(playingSounds') =>
                                    Sound(playingSounds', h).pos = 0]_vars

\* the first update() of a sound that was set to speed 2 has returned nil,
\* two frames were played since the update() before, and the sound is at 0
C34_Witness ==
    /\ ret.op = "update" /\ ret.err = "nil"
    /\ tick.played = 2
    /\ \E k \in 1..Len(playingSounds) :
            /\ ~playingSounds[k].looping
            /\ ~playingSounds[k].queued
            /\ playingSounds[k].pos = 0
            /\ playingSounds[k].speed = 2 * Den
            /\ tick.mix[playingSounds[k].handle] = <<0, 2>>

----------------------------------------------------------------------------
(* C35 *)

\* C35: in every reachable state every sound of the registry whose queued
\* flag is set is looping and is at pos 0.
C35_QueuedAtStart ==
    \A k \in 1..Len(playingSounds) :
        playingSounds[k].queued =>
            /\ playingSounds[k].looping
            /\ playingSounds[k].pos = 0

\* an update() that found frames played has returned nil, and a queued sound
\* whose speed was set to 2 before it has had that speed taken as its last
C35_Witness ==
    /\ ret.op = "update" /\ ret.err = "nil"
    /\ tick.played > 0
    /\ \E k \in 1..Len(playingSounds) :
            /\ playingSounds[k].queued
            /\ playingSounds[k].speed = 2 * Den
            /\ playingSounds[k].lastSpeed = 2 * Den
            /\ playingSounds[k].pos = 0

----------------------------------------------------------------------------
(* C36 *)

\* the pairs of the queue behind a sound that the step reclaims
FiredLinks == {k \in 1..Len(queue) : queue[k][1] \in Reclaimed}

\* one of them names a sound that is no longer in the registry
DanglingFires ==
    \E k \in FiredLinks : queue[k][2] \notin Handles(playingSounds)

\* C36: an update() that reclaims a sound X while the queue holds a pair
\* (X, Y) whose Y is no longer in the registry returns nil; every sound
\* that is not reclaimed stays in the registry, in its order; every sound
\* queued behind a reclaimed sound is not queued afterwards; every other
\* sound keeps its queued flag.
C36_DanglingLinkHarmless ==
    [][(UpdateStep /\ DanglingFires) =>
        /\ ret'.err = "nil"
        /\ Len(playingSounds') = Cardinality(Handles(playingSounds) \ Reclaimed)
        /\ \A i, j \in 1..Len(playingSounds) :
              (/\ i < j
               /\ playingSounds[i].handle \notin Reclaimed
               /\ playingSounds[j].handle \notin Reclaimed) =>
                    soundFromHandle(playingSounds', playingSounds[i].handle)
                        < soundFromHandle(playingSounds', playingSounds[j].handle)
        /\ \A b \in Handles(playingSounds) \ Reclaimed :
              Sound(playingSounds', b).queued =
                  (/\ Sound(playingSounds, b).queued
                   /\ \A k \in FiredLinks : queue[k][2] # b)]_vars

\* an update() has reclaimed a sound that has a pair with a sound that is
\* gone and, behind that pair, a pair with a sound that is in the registry:
\* that sound is no longer queued and was not yet mixed by this update()
C36_Witness ==
    /\ ret.op = "update" /\ ret.err = "nil"
    /\ \E k1, k2 \in 1..Len(queue) :
            /\ k1 < k2
            /\ queue[k1][1] = queue[k2][1]
            /\ queue[k1][1] \notin Handles(playingSounds)
            /\ queue[k1][2] \notin Handles(playingSounds)
            /\ queue[k1][2] # queue[k2][2]
            /\ queue[k2][2] \in Handles(playingSounds)
            /\ ~Sound(playingSounds, queue[k2][2]).queued
            /\ queue[k2][2] \notin DOMAIN tick.mix
            /\ tick.played > 0

----------------------------------------------------------------------------
(* initSoundSystem, one device call at a time *)

\* samples per second of the sound card, scaled down
DeviceRate == 2

\* the contents of a byte of a buffer that was never written
Garbage == {0, 255}

\* lines 98-107; the uint32 values stay far below 2^32 at every rate used
soundFormat(rate) ==
    LET Channels == 2
        BitsPerSample == 16
        BlockAlign == ((Channels * BitsPerSample) \div 8) % 2^16
    IN  [Channels |-> Channels, SamplesPerSec |-> rate,
         BitsPerSample |-> BitsPerSample, BlockAlign |-> BlockAlign,
         AvgBytesPerSec |-> rate * BlockAlign]

\* lines 114-116
RECURSIVE wholeSamples(_)
wholeSamples(bufferSize) ==
    IF bufferSize % 4 # 0 THEN wholeSamples(bufferSize + 1)
    ELSE bufferSize

\* lines 110-116
bufferSizeAt(rate) ==
    wholeSamples(2 * soundFormat(rate).AvgBytesPerSec)

\* make([]byte, n)
zeroBytes(n) == [i \in 1..n |-> 0]

\* line 134: Write(offset, data) on the locked memory
memWrite(mem, offset, data) ==
    [i \in 1..Len(mem) |->
        IF offset < i /\ i <= offset + Len(data) THEN data[i - offset]
        ELSE mem[i]]

\* tick.pc: the device call that initSoundSystem makes next; tick.dsound,
\* tick.buffer: "none" before they are created, "held", "released";
\* tick.mem: the bytes of the buffer; tick.size: the bufferSize asked for;
\* tick.plays: the calls of Play that succeeded; tick.looping: its flag
NoDevice == [pc |-> "Create", dsound |-> "none", buffer |-> "none",
             mem |-> <<>>, size |-> 0, plays |-> 0, looping |-> FALSE]

\* before the call: there is no soundSystem
InitDevice ==
    /\ playingSounds = <<>>
    /\ queue = <<>>
    /\ nextHandle = 0
    /\ lastWritePos = 0
    /\ loadedSounds = {}
    /\ locked = FALSE
    /\ ret = [op |-> "none", handle |-> 0, err |-> "nil"]
    /\ maxReturned = 0
    /\ tick = NoDevice

\* return nil, err
initFailed(device, err) ==
    /\ tick' = [device EXCEPT !.pc = "returned"]
    /\ ret' = [op |-> "initSoundSystem", handle |-> 0, err |-> err]
    /\ locked' = FALSE
    /\ UNCHANGED <<playingSounds, queue, nextHandle, lastWritePos,
                   loadedSounds, maxReturned>>

initNext(device) ==
    /\ tick' = device
    /\ UNCHANGED <<playingSounds, queue, nextHandle, lastWritePos,
                   loadedSounds, ret, maxReturned>>

\* lines 84-87
initCreate(err) ==
    /\ tick.pc = "Create"
    /\ IF err # "nil" THEN initFailed(tick, "create")
       ELSE /\ initNext([tick EXCEPT !.dsound = "held",
                                     !.pc = "SetCooperativeLevel"])
            /\ UNCHANGED locked

\* lines 92-95
initSetCooperativeLevel(err) ==
    /\ tick.pc = "SetCooperativeLevel"
    /\ IF err # "nil"
       THEN initFailed([tick EXCEPT !.dsound = "released"], "level")
       ELSE /\ initNext([tick EXCEPT !.pc = "CreateSoundBuffer"])
            /\ UNCHANGED locked

\* lines 97-125; garbage: what the new buffer holds
initCreateSoundBuffer(err, garbage) ==
    /\ tick.pc = "CreateSoundBuffer"
    /\ IF err # "nil"
       THEN initFailed([tick EXCEPT !.dsound = "released"], "buffer")
       ELSE /\ initNext([tick EXCEPT !.buffer = "held",
                                     !.size = bufferSizeAt(DeviceRate),
                                     !.mem = garbage,
                                     !.pc = "Lock"])
            /\ UNCHANGED locked

\* a failed Lock after which the buffer is not released
initLockKeepsBuffer(err) ==
    /\ tick.pc = "Lock"
    /\ IF err # "nil"
       THEN initFailed([tick EXCEPT !.dsound = "released"], "lock")
       ELSE /\ initNext([tick EXCEPT !.pc = "Write"])
            /\ locked' = TRUE

\* lines 128-133: Lock(0, bufferSize, 0)
initLock(err) ==
    /\ tick.pc = "Lock"
    /\ IF err # "nil"
       THEN initFailed([tick EXCEPT !.buffer = "released", !.mem = <<>>,
                                    !.dsound = "released"], "lock")
       ELSE /\ initNext([tick EXCEPT !.pc = "Write"])
            /\ locked' = TRUE

\* line 134: soundMem.Size() is the size of the region that Lock locked
initWrite ==
    /\ tick.pc = "Write"
    /\ initNext([tick EXCEPT !.mem = memWrite(tick.mem, 0, zeroBytes(tick.size)),
                             !.pc = "Unlock"])
    /\ UNCHANGED locked

\* lines 135-139
initUnlock(err) ==
    /\ tick.pc = "Unlock"
    /\ IF err # "nil"
       THEN initFailed([tick EXCEPT !.buffer = "released", !.mem = <<>>,
                                    !.dsound = "released"], "unlock")
       ELSE /\ initNext([tick EXCEPT !.pc = "Play"])
            /\ locked' = FALSE

\* lines 144-156: Play(0, BPLAY_LOOPING), then the soundSystem is returned
initPlay(err) ==
    /\ tick.pc = "Play"
    /\ IF err # "nil"
       THEN initFailed([tick EXCEPT !.buffer = "released", !.mem = <<>>,
                                    !.dsound = "released"], "play")
       ELSE /\ tick' = [tick EXCEPT !.plays = tick.plays + 1,
                                    !.looping = TRUE,
                                    !.pc = "returned"]
            /\ playingSounds' = <<>>
            /\ queue' = <<>>
            /\ nextHandle' = 1
            /\ lastWritePos' = 0
            /\ loadedSounds' = {}
            /\ ret' = [op |-> "initSoundSystem", handle |-> 0, err |-> "nil"]
            /\ UNCHANGED <<locked, maxReturned>>

DeviceErrors == {"nil", "failed"}

\* initSoundSystem on a sound card each of whose calls may fail
NextInit ==
    \/ \E err \in DeviceErrors : initCreate(err)
    \/ \E err \in DeviceErrors : initSetCooperativeLevel(err)
    \/ /\ tick.pc = "CreateSoundBuffer"
       /\ \E err \in DeviceErrors,
             garbage \in [1..bufferSizeAt(DeviceRate) -> Garbage] :
                initCreateSoundBuffer(err, garbage)
    \/ \E err \in DeviceErrors : initLock(err)
    \/ initWrite
    \/ \E err \in DeviceErrors : initUnlock(err)
    \/ \E err \in DeviceErrors : initPlay(err)

SpecInit == InitDevice /\ [][NextInit]_vars

----------------------------------------------------------------------------
(* C37 *)

\* C37: when initSoundSystem has returned nil as its error, the device and
\* the buffer are held, the buffer's size is a multiple of 4 bytes and larger
\* than the window that update() writes, every byte of it is 0, it is not
\* locked, Play has succeeded exactly once, with the looping flag, and the
\* soundSystem has no sounds, no pairs, nothing loaded, nextHandle 1 and
\* lastWritePos 0; when it has returned an error, neither the device nor the
\* buffer is held, Play has not succeeded and there is no soundSystem. The
\* size that the code computes at 44100 samples per second is a multiple of 4
\* and larger than the window of 4096 samples of 4 bytes.
C37_AllOrNothing ==
    /\ bufferSizeAt(44100) % 4 = 0
    /\ bufferSizeAt(44100) > 4 * 4096
    /\ tick.plays <= 1
    /\ (tick.pc = "returned" /\ ret.err = "nil") =>
            /\ tick.dsound = "held" /\ tick.buffer = "held"
            /\ tick.size % FrameBytes = 0
            /\ tick.size > soundWriteAheadSize
            /\ Len(tick.mem) = tick.size
            /\ \A i \in 1..Len(tick.mem) : tick.mem[i] = 0
            /\ ~locked
            /\ tick.plays = 1 /\ tick.looping
            /\ playingSounds = <<>> /\ queue = <<>> /\ loadedSounds = {}
            /\ nextHandle = 1
            /\ lastWritePos = 0
    /\ (tick.pc = "returned" /\ ret.err # "nil") =>
            /\ tick.dsound # "held" /\ tick.buffer # "held"
            /\ tick.plays = 0
            /\ nextHandle = 0

\* the soundSystem was returned: Play has succeeded once on a buffer of the
\* size asked for, and every byte of the buffer is 0
C37_Witness ==
    /\ tick.pc = "returned" /\ ret.err = "nil"
    /\ tick.plays = 1
    /\ nextHandle = 1
    /\ Len(tick.mem) = bufferSizeAt(DeviceRate)
    /\ \A i \in 1..Len(tick.mem) : tick.mem[i] = 0

====
